---- MODULE Spec2Model ----
(***************************************************************************)
(* Model of backend/scraper.py: WebScraper, the hybrid image scraper that  *)
(* tries Google Custom Search first and falls back to Bing scraping.       *)
(* Text values whose characters matter (brand name, credentials, hosting   *)
(* page URLs) are sequences of one-character strings; image URLs are only  *)
(* compared and tested for emptiness and are plain strings.  An optional   *)
(* value (Python None or a str) is a set holding at most one sequence.     *)
(***************************************************************************)
EXTENDS Integers, Sequences, FiniteSets, TLC

\* ---------------------------------------------------------------- bounds
\* Largest number of raw results one provider response carries.
MaxPageLen == 2
\* max_images ranges over -1, 0, 1, 2 and 10*k + 1 for k in 1..MaxTens.
MaxTens == 2

\* ------------------------------------------------------ program constants
per_page == 10
HTTP_OK == 200
HTTP_QUOTA == 429

\* ---------------------------------------------------------- text helpers
Whitespace == {" ", "\t", "\n"}

UpperCase == <<"A", "B", "C", "D", "E", "F", "G", "H", "I", "J", "K", "L", "M",
               "N", "O", "P", "Q", "R", "S", "T", "U", "V", "W", "X", "Y", "Z">>
LowerCase == <<"a", "b", "c", "d", "e", "f", "g", "h", "i", "j", "k", "l", "m",
               "n", "o", "p", "q", "r", "s", "t", "u", "v", "w", "x", "y", "z">>

\* str.lower() on one character.
LowerChar(c) ==
    IF \E i \in 1..Len(UpperCase) : UpperCase[i] = c
    THEN LowerCase[CHOOSE i \in 1..Len(UpperCase) : UpperCase[i] = c]
    ELSE c

\* str.lower()
Lower(s) == [i \in 1..Len(s) |-> LowerChar(s[i])]

\* str.strip(): drop leading and trailing whitespace.
RECURSIVE LStrip(_)
LStrip(s) ==
    IF s # <<>> /\ Head(s) \in Whitespace THEN LStrip(Tail(s)) ELSE s

RECURSIVE RStrip(_)
RStrip(s) ==
    IF s # <<>> /\ s[Len(s)] \in Whitespace
    THEN RStrip(SubSeq(s, 1, Len(s) - 1))
    ELSE s

Strip(s) == RStrip(LStrip(s))

\* Length of the leading run of non-whitespace characters of s.
TokenLen(s) ==
    LET ws == {i \in 1..Len(s) : s[i] \in Whitespace}
    IN  IF ws = {} THEN Len(s) ELSE (CHOOSE i \in ws : \A j \in ws : i <= j) - 1

\* str.split() with no separator: the maximal non-whitespace runs, in order.
RECURSIVE Split(_)
Split(s) ==
    IF s = <<>> THEN <<>>
    ELSE IF Head(s) \in Whitespace THEN Split(Tail(s))
    ELSE LET n == TokenLen(s)
         IN  <<SubSeq(s, 1, n)>> \o Split(SubSeq(s, n + 1, Len(s)))

\* Python "sub in s" on str.
Contains(s, sub) ==
    \E i \in 0..(Len(s) - Len(sub)) : SubSeq(s, i + 1, i + Len(sub)) = sub

\* Python truthiness of an optional str: neither None nor "".
Truthy(opt) == \E s \in opt : s # <<>>

\* "x.strip() if x else None"
StripOrNone(opt) == IF Truthy(opt) THEN {Strip(s) : s \in opt} ELSE {}

\* [w.lower() for w in brand_name.split() if w]
BrandKeywords(name) ==
    LET words == Split(name)
    IN  SelectSeq([i \in 1..Len(words) |-> Lower(words[i])], LAMBDA w : w # <<>>)

\* Variant: all() in place of any().
AllKeywordsIn(page_lower, keywords) ==
    \A i \in 1..Len(keywords) : Contains(page_lower, keywords[i])

\* any(kw in page_lower for kw in self.brand_keywords)
AnyKeywordIn(page_lower, keywords) ==
    \E i \in 1..Len(keywords) : Contains(page_lower, keywords[i])

\* ----------------------------------------------------------- input samples
BrandNames ==
    { <<"A", "c", "m", "e", " ", "C", "o">>,
      <<" ", "c", "o", " ">>,
      <<" ", " ">> }

\* Credential arguments: None, whitespace only, a key padded with whitespace.
CredentialArgs == { {}, {<<" ">>}, {<<" ", "k", " ">>} }

MaxImagesValues == {-1, 0, 1, 2} \cup {per_page * k + 1 : k \in 1..MaxTens}

Img1 == "http://x/1.png"
Img2 == "http://y/2.png"

PageAcme ==
    <<"h", "t", "t", "p", ":", "/", "/", "a", "c", "m", "e", ".", "c", "o",
      "/", "p", "a", "g", "e">>
PageAcmeUpper ==
    <<"H", "T", "T", "P", ":", "/", "/", "A", "C", "M", "E", ".", "C", "O", "/">>
PageOther ==
    <<"h", "t", "t", "p", ":", "/", "/", "n", "o", "t", "m", "a", "t", "c", "h",
      "i", "n", "g", ".", "e", "x", "a", "m", "p", "l", "e", "/">>

\* Items of a Google response.  shape "dict": item.get("link", "") is link and
\* item.get("image", {}).get("contextLink", "") is contextLink ("" when the
\* key is missing); shape "image_not_dict": the "image" value has no get().
GoogleItems ==
    { [shape |-> "dict", link |-> Img1, contextLink |-> PageAcme],
      [shape |-> "dict", link |-> Img2, contextLink |-> PageAcmeUpper],
      [shape |-> "dict", link |-> Img1, contextLink |-> PageOther],
      [shape |-> "dict", link |-> "",   contextLink |-> PageAcme],
      [shape |-> "dict", link |-> Img2, contextLink |-> <<>>],
      [shape |-> "image_not_dict", link |-> Img1, contextLink |-> <<>>] }

\* What requests.get + resp.json() can give _google_image_search: a transport
\* exception, a status with its body text (JSON holding "items" when the
\* status is 200), or a 200 whose body does not parse to a JSON object.  A
\* response fixes how many items it carries; what
\* each item is is drawn from GoogleItems when the loop reaches it (the code
\* reads the items once, in order, and never looks at one it has not reached).
GoogleResponses ==
    { [kind |-> "exception", status |-> 0, text |-> "", count |-> 0],
      [kind |-> "http", status |-> HTTP_QUOTA, text |-> "quota", count |-> 0],
      [kind |-> "http", status |-> 500, text |-> "backend error", count |-> 0],
      [kind |-> "http", status |-> 201, text |-> "{}", count |-> 0],
      [kind |-> "bad_json", status |-> HTTP_OK, text |-> "<html>", count |-> 0] }
    \cup { [kind |-> "http", status |-> HTTP_OK, text |-> "{...}", count |-> n] :
              n \in 0..MaxPageLen }

\* <a class="iusc"> anchors of a Bing page, by what a.get("m") and
\* json.loads(m_attr) give: no attribute, text that is not JSON, JSON that is
\* not an object, or an object whose murl / purl are "" when missing.
BingAnchors ==
    { [m |-> "object", murl |-> Img1, purl |-> PageAcme],
      [m |-> "object", murl |-> Img2, purl |-> PageAcmeUpper],
      [m |-> "object", murl |-> Img1, purl |-> PageOther],
      [m |-> "object", murl |-> "",   purl |-> PageAcme],
      [m |-> "object", murl |-> Img2, purl |-> <<>>],
      [m |-> "absent", murl |-> "", purl |-> <<>>],
      [m |-> "not_json", murl |-> "", purl |-> <<>>],
      [m |-> "json_array", murl |-> "", purl |-> <<>>] }

\* What one fetch of a Bing results page can give, through ScrapingBee or
\* directly: a transport exception or a status with the page's html.  A page
\* fixes how many anchors soup.find_all gives; what each anchor is is drawn
\* from BingAnchors when the loop reaches it.
BingResponses ==
    { [kind |-> "exception", status |-> 0, count |-> 0],
      [kind |-> "http", status |-> 500, count |-> 0],
      [kind |-> "http", status |-> 204, count |-> 0] }
    \cup { [kind |-> "http", status |-> HTTP_OK, count |-> n] :
              n \in 0..MaxPageLen }

\* What a provider answered, seen from outside the program: a 2xx status
\* with a readable body, or not.
Answered(resp) == resp.kind = "http" /\ resp.status \in 200..299

\* What a provider answered, seen from outside the program: status 200 with
\* a readable body that holds no raw result.
EmptyPage(resp) ==
    resp.kind = "http" /\ resp.status = HTTP_OK /\ resp.count = 0

\* search_queries / bing_search_keywords: brand_name followed by these.
search_queries == <<"newspaper ad", "magazine ad", "print ad", "social media ad">>
bing_search_keywords == search_queries

\* ------------------------------------------------------------ code helpers
\* Variant: the credentials are only tested against None.
HasGoogleCredentialsNotNone(key, cse) == key # {} /\ cse # {}

\* "if self.google_api_key and self.google_cse_id"
HasGoogleCredentials(key, cse) == Truthy(key) /\ Truthy(cse)

\* Variant: the page loop runs once more than the pages computed.
PagesOneMore(max) == (max + per_page - 1) \div per_page + 1

\* pages = (max_images + per_page - 1) // per_page
Pages(max) == (max + per_page - 1) \div per_page

\* Variant: offsets counted from 0.
StartIdxZeroBased(idx) == idx * per_page

\* start_idx = page_idx * per_page + 1
StartIdx(idx) == idx * per_page + 1

\* Variant: the loops stop only once the cap is exceeded.
CapReachedStrict(coll, max) == Len(coll) > max

\* Variant: the cap is never tested.
CapReachedNever(coll, max) == FALSE

\* Variant: "if not items" ends the whole attempt, not the query.
AfterEmptyPageLastQuery(idx) == Len(search_queries) + 1

\* "if not items: break" leaves the page loop: the next query is next.
AfterEmptyPage(idx) == idx + 1

\* "if len(collected) >= max_images: break"
CapReached(coll, max) == Len(coll) >= max

\* Variant: only the quota status is tested, any other status is read as a
\* page.
GoogleFetchRaisesQuotaOnly(resp) ==
    resp.kind = "exception" \/ resp.status = HTTP_QUOTA

\* _google_image_search raises: requests.get raised, the status is not 200,
\* or resp.json() raised.
GoogleFetchRaises(resp) ==
    \/ resp.kind = "exception"
    \/ resp.kind = "bad_json"
    \/ resp.status = HTTP_QUOTA
    \/ resp.status # HTTP_OK

\* No exception.
NoError == [error |-> "none", status |-> 0, text |-> ""]

\* Variant: every status other than 200 is reported as the quota error.
GoogleErrorQuotaForAll(resp) ==
    IF resp.kind = "exception"
    THEN [error |-> "RequestException", status |-> 0, text |-> ""]
    ELSE IF resp.status # HTTP_OK
    THEN [error |-> "quota exceeded", status |-> HTTP_QUOTA, text |-> ""]
    ELSE IF resp.kind = "bad_json"
    THEN [error |-> "JSONDecodeError", status |-> 0, text |-> ""]
    ELSE NoError

\* The exception _google_image_search raises for a response, by the order of
\* its tests: requests.get raised; RuntimeError("... quota exceeded (429).");
\* RuntimeError(f"Google API error {resp.status_code}: {resp.text}"); the
\* exception of resp.json(); none.
GoogleError(resp) ==
    IF resp.kind = "exception"
    THEN [error |-> "RequestException", status |-> 0, text |-> ""]
    ELSE IF resp.status = HTTP_QUOTA
    THEN [error |-> "quota exceeded", status |-> HTTP_QUOTA, text |-> ""]
    ELSE IF resp.status # HTTP_OK
    THEN [error |-> "Google API error", status |-> resp.status,
          text |-> resp.text]
    ELSE IF resp.kind = "bad_json"
    THEN [error |-> "JSONDecodeError", status |-> 0, text |-> ""]
    ELSE NoError

\* _fetch_via_scrapingbee raises: requests.get raised or the status is not 200.
ScrapingBeeRaises(resp) == resp.kind = "exception" \/ resp.status # HTTP_OK

\* The try block of _scrape_with_bing gives no html: with a ScrapingBee key
\* _fetch_via_scrapingbee raised; without one session.get raised or the
\* status is not 200.
BingFetchFails(viaProxy, resp) ==
    IF viaProxy
    THEN ScrapingBeeRaises(resp)
    ELSE resp.kind = "exception" \/ resp.status # HTTP_OK

\* Variant: the failure is not caught and leaves scrape_images.
BingFailurePropagates == "raised"

\* Where control goes after a Bing fetch that gave no html: both the except
\* clause and the status test "continue" with the next phrase.
BingFailureTarget == "bing_keywords"

\* Variant: the membership test is lost.
AlreadySeenNever(url, seenUrls) == FALSE

\* "if img_url in seen: continue"
AlreadySeen(url, seenUrls) == url \in seenUrls

\* Variant: seen.add() comes before the tests, for every result with a URL.
SeenAfterEager(outcome, url, seenUrls) ==
    IF url # "" THEN seenUrls \cup {url} ELSE seenUrls

\* "seen.add(img_url)" is reached only by a result that is collected.
SeenAfter(outcome, url, seenUrls) ==
    IF outcome = "accept" THEN seenUrls \cup {url} ELSE seenUrls

\* Variant: the ScrapingBee key is only tested against None.
UseScrapingBeeNotNone(key) == key # {}

\* "if self.scrapingbee_api_key"
UseScrapingBee(key) == Truthy(key)

\* Variant: the page URL is matched as it is, without lower().
GoogleItemOutcomeCaseSensitive(item, seenUrls, keywords) ==
    IF item.shape # "dict" THEN "raise"
    ELSE IF item.link = "" \/ item.contextLink = <<>> THEN "skip"
    ELSE IF ~AnyKeywordIn(item.contextLink, keywords) THEN "skip"
    ELSE IF AlreadySeen(item.link, seenUrls) THEN "skip"
    ELSE "accept"

\* Body of "for item in items" after the cap test: what happens to one item.
GoogleItemOutcome(item, seenUrls, keywords) ==
    IF item.shape # "dict" THEN "raise"
    ELSE IF item.link = "" \/ item.contextLink = <<>> THEN "skip"
    ELSE IF ~AnyKeywordIn(Lower(item.contextLink), keywords) THEN "skip"
    ELSE IF AlreadySeen(item.link, seenUrls) THEN "skip"
    ELSE "accept"

\* Body of "for a in a_tags" after the cap test: what happens to one anchor.
BingAnchorOutcome(a, seenUrls, keywords) ==
    IF a.m = "absent" THEN "skip"
    ELSE IF a.m = "not_json" THEN "skip"
    ELSE IF a.m # "object" THEN "raise"
    ELSE IF a.murl = "" \/ a.purl = <<>> THEN "skip"
    ELSE IF ~AnyKeywordIn(Lower(a.purl), keywords) THEN "skip"
    ELSE IF AlreadySeen(a.murl, seenUrls) THEN "skip"
    ELSE "accept"

\* Variant: the fallback goes on with the list the Google attempt had built.
BingStartCollectedMerged(partial) == partial

\* The collector _scrape_with_bing starts with ("collected = []",
\* "seen = set()"), whatever a Google attempt before it had gathered.
BingStartCollected(partial) == <<>>
BingStartSeen(partial) == {}

\* Variant: the Google result is not returned and control falls through to
\* the Bing loop.
GoogleReturnFallsThrough == "bing_keywords"

\* What scrape_images does when _scrape_with_google returns: "return" it.
GoogleReturnTarget == "done"

\* ------------------------------------------------- reference collection
\* The whitespace-separated tokens of a name, lower-cased.
KeywordTokens(name) ==
    { Lower(SubSeq(name, i, j)) : <<i, j>> \in
        { p \in (1..Len(name)) \X (1..Len(name)) :
            /\ p[1] <= p[2]
            /\ \A k \in p[1]..p[2] : name[k] \notin Whitespace
            /\ (p[1] = 1 \/ name[p[1] - 1] \in Whitespace)
            /\ (p[2] = Len(name) \/ name[p[2] + 1] \in Whitespace) } }

\* The rule the design gives for one raw result and the URLs kept so far:
\* keep its image link when it has an image link and a page link, the page
\* link lower-cased contains a token of the brand name, and the image link
\* was not kept before.
RefKeep(kept, it, name) ==
    IF /\ it.shape \in {"dict", "object"}
       /\ it.url # "" /\ it.page # <<>>
       /\ \E k \in KeywordTokens(name) : Contains(Lower(it.page), k)
       /\ \A i \in 1..Len(kept) : kept[i] # it.url
    THEN Append(kept, it.url)
    ELSE kept

\* RefKeep over a sequence of raw results, in order.
RECURSIVE RefKeepAll(_, _, _)
RefKeepAll(kept, its, name) ==
    IF its = <<>> THEN kept
    ELSE RefKeepAll(RefKeep(kept, Head(its), name), Tail(its), name)

\* Raw results in the form the histories record them.
GoogleRaw(item) ==
    [shape |-> item.shape, url |-> item.link, page |-> item.contextLink]
BingRaw(a) == [shape |-> a.m, url |-> a.murl, page |-> a.purl]

\* ------------------------------------------------------------------- state
VARIABLES
    brand_name,            \* self.brand_name
    brand_keywords,        \* self.brand_keywords
    google_api_key,        \* self.google_api_key
    google_cse_id,         \* self.google_cse_id
    scrapingbee_api_key,   \* self.scrapingbee_api_key
    max_images,            \* argument of scrape_images
    ctor_args,             \* history: credential arguments of __init__
    pc,                    \* where the run of scrape_images is
    collected,             \* local list of the running provider attempt
    seen,                  \* local set of the running provider attempt
    query_idx,             \* position in search_queries / bing_search_keywords
    page_idx,              \* page_idx of the inner Google loop
    items_left,            \* number of items / a_tags not yet looped over
    result,                \* value returned by scrape_images
    origin,                \* history: page URL each collected URL came with
    call,                  \* history: provider fetch the last step made
    gLast,                 \* history: the last Google page fetch
    proxyCalls,            \* history: number of fetches through ScrapingBee
    directCalls,           \* history: number of direct Bing fetches
    bLast,                 \* history: the last Bing fetch
    googleRaised,          \* history: an exception left _scrape_with_google
    discarded,             \* history: Google held URLs when it raised
    lastItem,              \* history: raw result the last step looped over
    bingEntered,           \* history: _scrape_with_bing was called
    aloneCollected,        \* history: collector of a Bing-only run fed the
    aloneSeen,             \*          same Bing responses
    refKept,               \* history: URLs the reference rule keeps of the
                           \*          raw results delivered to this attempt
    gResp,                 \* history: what the Google fetch of the last step
    gError,                \*          received, and the exception it raised
    gCalls                 \* history: page fetches made by the Google attempt,
                           \*          up to its last step; 0 past that step

config == <<brand_name, brand_keywords, google_api_key, google_cse_id,
            scrapingbee_api_key, max_images, ctor_args>>
bingHist == <<proxyCalls, directCalls, bLast>>
googleFate == <<googleRaised, discarded>>
aloneVars == <<aloneCollected, aloneSeen>>
vars == <<config, pc, collected, seen, query_idx, page_idx, items_left, result,
          origin, call, gLast, bingHist, googleFate, bingEntered, aloneVars,
          lastItem, refKept, gResp, gError, gCalls>>

\* No Google fetch in the last step.
NoResp == [kind |-> "none", status |-> 0, text |-> "", count |-> 0]

NoCall == [query |-> "", start |-> 0, answered |-> FALSE, empty |-> FALSE]
NoItem == [shape |-> "none", url |-> "", page |-> <<>>]

Init ==
    /\ \E name \in BrandNames :
          /\ brand_name = Strip(name)
          /\ brand_keywords = BrandKeywords(Strip(name))
    /\ \E key \in CredentialArgs, cse \in CredentialArgs, bee \in CredentialArgs :
          /\ ctor_args = [google_api_key |-> key, google_cse_id |-> cse,
                          scrapingbee_api_key |-> bee]
          /\ google_api_key = StripOrNone(key)
          /\ google_cse_id = StripOrNone(cse)
          /\ scrapingbee_api_key = StripOrNone(bee)
    /\ max_images \in MaxImagesValues
    /\ pc = "start"
    /\ collected = <<>>
    /\ seen = {}
    /\ query_idx = 1
    /\ page_idx = 0
    /\ items_left = 0
    /\ result = <<>>
    /\ origin = <<>>
    /\ call = "none" /\ gResp = NoResp /\ gError = NoError
    /\ gCalls = 0
    /\ gLast = NoCall
    /\ proxyCalls = 0
    /\ directCalls = 0
    /\ bLast = NoCall
    /\ googleRaised = FALSE
    /\ discarded = FALSE
    /\ lastItem = NoItem
    /\ bingEntered = FALSE
    /\ aloneCollected = <<>>
    /\ aloneSeen = {}
    /\ refKept = <<>>

\* Entry of _scrape_with_bing, from scrape_images directly or after the
\* except clause: fresh locals, first phrase.
EnterBing ==
    /\ pc' = "bing_keywords"
    /\ collected' = BingStartCollected(collected)
    /\ seen' = BingStartSeen(seen)
    /\ origin' = <<>>
    /\ query_idx' = 1
    /\ page_idx' = 0
    /\ items_left' = 0
    /\ bingEntered' = TRUE
    /\ refKept' = <<>>
    /\ UNCHANGED <<bingHist, aloneVars, result>>

\* An exception leaves _scrape_with_google: the except clause of
\* scrape_images logs it and control falls through to _scrape_with_bing.
GoogleRaises ==
    /\ googleRaised' = TRUE
    /\ discarded' = (collected # <<>>)
    /\ EnterBing

\* scrape_images up to the call of a provider.
ScrapeImages ==
    /\ pc = "start"
    /\ IF HasGoogleCredentials(google_api_key, google_cse_id)
       THEN /\ pc' = "google_queries"
            /\ collected' = <<>>
            /\ seen' = {}
            /\ origin' = <<>>
            /\ query_idx' = 1
            /\ page_idx' = 0
            /\ refKept' = <<>>
            /\ UNCHANGED <<items_left, result, bingHist, bingEntered, aloneVars>>
       ELSE EnterBing
    /\ call' = "none" /\ gResp' = NoResp /\ gError' = NoError
    /\ lastItem' = NoItem
    /\ UNCHANGED <<config, gLast, googleFate>>
    /\ gCalls' = 0

\* Top of "for query in search_queries": the loop ends when the queries are
\* used up or the cap is reached, and _scrape_with_google returns collected.
GoogleQueries ==
    /\ pc = "google_queries"
    /\ IF query_idx > Len(search_queries) \/ CapReached(collected, max_images)
       THEN /\ pc' = GoogleReturnTarget
            /\ result' = collected
            /\ UNCHANGED <<page_idx>>
       ELSE /\ pc' = "google_pages"
            /\ page_idx' = 0
            /\ UNCHANGED <<result>>
    /\ call' = "none" /\ gResp' = NoResp /\ gError' = NoError
    /\ lastItem' = NoItem
    /\ UNCHANGED <<config, collected, seen, query_idx, items_left, origin,
                   gLast, bingHist, googleFate, bingEntered, aloneVars,
                   refKept>>
    /\ UNCHANGED gCalls

\* Top of "for page_idx in range(pages)": leave the loop when the pages are
\* used up or the cap is reached, else fetch the page with
\* _google_image_search; a raise goes to the fallback, an empty page ends the
\* query, a page with items is looped over.
GooglePages ==
    /\ pc = "google_pages"
    /\ IF page_idx >= Pages(max_images) \/ CapReached(collected, max_images)
       THEN /\ pc' = "google_queries"
            /\ query_idx' = query_idx + 1
            /\ call' = "none" /\ gResp' = NoResp /\ gError' = NoError
            /\ UNCHANGED gCalls
            /\ UNCHANGED <<collected, seen, origin, page_idx, items_left, result,
                           gLast, bingHist, googleFate, bingEntered,
                           aloneVars, refKept>>
       ELSE \E resp \in GoogleResponses :
            /\ call' = "google"
            /\ gResp' = resp
            /\ gCalls' = gCalls + 1
            /\ gError' = IF GoogleFetchRaises(resp) THEN GoogleError(resp)
                                                    ELSE NoError
            /\ gLast' = [query |-> search_queries[query_idx],
                         start |-> StartIdx(page_idx),
                         answered |-> Answered(resp),
                         empty |-> EmptyPage(resp)]
            /\ IF GoogleFetchRaises(resp)
               THEN GoogleRaises
               ELSE /\ IF resp.count = 0
                       THEN /\ pc' = "google_queries"
                            /\ query_idx' = AfterEmptyPage(query_idx)
                            /\ UNCHANGED items_left
                       ELSE /\ pc' = "google_items"
                            /\ items_left' = resp.count
                            /\ UNCHANGED query_idx
                    /\ UNCHANGED <<collected, seen, origin, page_idx, result,
                                   bingHist, googleFate, bingEntered,
                                   aloneVars, refKept>>
    /\ lastItem' = NoItem
    /\ UNCHANGED config

\* One turn of "for item in items": the loop ends when the items are used up
\* or the cap is reached, else the item is skipped, collected, or raises.
GoogleItem ==
    /\ pc = "google_items"
    /\ IF items_left = 0 \/ CapReached(collected, max_images)
       THEN /\ pc' = "google_pages"
            /\ page_idx' = page_idx + 1
            /\ items_left' = 0
            /\ lastItem' = NoItem
            /\ \E rest \in [1..items_left -> GoogleItems] :
                  refKept' = RefKeepAll(refKept,
                                        [i \in 1..items_left |-> GoogleRaw(rest[i])],
                                        brand_name)
            /\ UNCHANGED <<collected, seen, origin, query_idx, result,
                           bingHist, googleFate, bingEntered, aloneVars>>
       ELSE \E item \in GoogleItems :
            LET outcome == GoogleItemOutcome(item, seen, brand_keywords)
            IN  /\ lastItem' = GoogleRaw(item)
                /\ IF outcome = "raise"
                   THEN GoogleRaises
                   ELSE
                     /\ items_left' = items_left - 1
                     /\ refKept' = RefKeep(refKept, GoogleRaw(item), brand_name)
                     /\ seen' = SeenAfter(outcome, item.link, seen)
                     /\ IF outcome = "accept"
                        THEN /\ collected' = Append(collected, item.link)
                             /\ origin' = Append(origin, item.contextLink)
                        ELSE UNCHANGED <<collected, origin>>
                     /\ UNCHANGED <<pc, query_idx, page_idx, result, bingHist,
                                    googleFate, bingEntered, aloneVars>>
    /\ call' = "none" /\ gResp' = NoResp /\ gError' = NoError
    /\ UNCHANGED <<config, gLast>>
    /\ UNCHANGED gCalls

\* Top of "for keyword in self.bing_search_keywords": the loop ends when the
\* phrases are used up or the cap is reached and _scrape_with_bing returns
\* collected; else the phrase's page is fetched, through ScrapingBee when
\* scrapingbee_api_key is set and directly otherwise.  A fetch that fails
\* is logged and the loop continues; else the anchors are looped over.
BingKeywords ==
    /\ pc = "bing_keywords"
    /\ IF query_idx > Len(bing_search_keywords)
          \/ CapReached(collected, max_images)
       THEN /\ pc' = "done"
            /\ result' = collected
            /\ call' = "none" /\ gResp' = NoResp /\ gError' = NoError
            /\ UNCHANGED <<query_idx, items_left, bingHist>>
       ELSE \E resp \in BingResponses :
            /\ IF UseScrapingBee(scrapingbee_api_key)
               THEN /\ call' = "scrapingbee" /\ gResp' = NoResp /\ gError' = NoError
                    /\ proxyCalls' = proxyCalls + 1
                    /\ UNCHANGED directCalls
               ELSE /\ call' = "direct" /\ gResp' = NoResp /\ gError' = NoError
                    /\ directCalls' = directCalls + 1
                    /\ UNCHANGED proxyCalls
            /\ bLast' = [query |-> bing_search_keywords[query_idx],
                         start |-> 0,
                         answered |-> Answered(resp),
                         empty |-> EmptyPage(resp)]
            /\ IF BingFetchFails(UseScrapingBee(scrapingbee_api_key), resp)
               THEN /\ pc' = BingFailureTarget
                    /\ query_idx' = query_idx + 1
                    /\ UNCHANGED items_left
               ELSE /\ pc' = "bing_anchors"
                    /\ items_left' = resp.count
                    /\ UNCHANGED query_idx
            /\ UNCHANGED result
    /\ lastItem' = NoItem
    /\ UNCHANGED <<config, collected, seen, origin, page_idx, gLast,
                   googleFate, bingEntered, aloneVars, refKept>>
    /\ gCalls' = 0

\* One turn of "for a in a_tags": the loop ends when the anchors are used up
\* or the cap is reached, else the anchor is skipped, collected, or raises an
\* exception that nothing in _scrape_with_bing or scrape_images catches.
BingAnchor ==
    /\ pc = "bing_anchors"
    /\ IF items_left = 0 \/ CapReached(collected, max_images)
       THEN /\ pc' = "bing_keywords"
            /\ query_idx' = query_idx + 1
            /\ items_left' = 0
            /\ lastItem' = NoItem
            /\ \E rest \in [1..items_left -> BingAnchors] :
                  refKept' = RefKeepAll(refKept,
                                        [i \in 1..items_left |-> BingRaw(rest[i])],
                                        brand_name)
            /\ UNCHANGED <<collected, seen, origin, aloneVars>>
       ELSE \E a \in BingAnchors :
            LET outcome == BingAnchorOutcome(a, seen, brand_keywords)
                alone == BingAnchorOutcome(a, aloneSeen, brand_keywords)
            IN  /\ lastItem' = BingRaw(a)
                /\ IF outcome = "raise"
                   THEN /\ pc' = "raised"
                        /\ UNCHANGED <<items_left, refKept>>
                   ELSE /\ items_left' = items_left - 1
                        /\ refKept' = RefKeep(refKept, BingRaw(a), brand_name)
                        /\ UNCHANGED pc
                /\ seen' = SeenAfter(outcome, a.murl, seen)
                /\ IF outcome = "accept"
                   THEN /\ collected' = Append(collected, a.murl)
                        /\ origin' = Append(origin, a.purl)
                   ELSE UNCHANGED <<collected, origin>>
                /\ IF alone = "accept" /\ ~CapReached(aloneCollected, max_images)
                   THEN /\ aloneSeen' = aloneSeen \cup {a.murl}
                        /\ aloneCollected' = Append(aloneCollected, a.murl)
                   ELSE UNCHANGED aloneVars
                /\ UNCHANGED query_idx
    /\ call' = "none" /\ gResp' = NoResp /\ gError' = NoError
    /\ UNCHANGED <<config, page_idx, result, gLast, bingHist, googleFate,
                   bingEntered>>
    /\ gCalls' = 0
Next ==
    \/ ScrapeImages
    \/ GoogleQueries
    \/ GooglePages
    \/ GoogleItem
    \/ BingKeywords
    \/ BingAnchor

Spec == Init /\ [][Next]_vars

\* ================================================================= claims
GooglePcs == {"google_queries", "google_pages", "google_items"}
BingPcs == {"bing_keywords", "bing_anchors"}
BingCalls == {"scrapingbee", "direct"}

\* C1: once an exception has left the Google attempt (on the first page fetch
\* or a later one, with or without URLs already collected), the collector of
\* the fallback is at every point the collector of a Bing-only run fed the
\* same Bing responses, and the value scrape_images returns is that run's
\* result: the fallback starts empty and nothing of the failed attempt is kept.
C1_FallbackEqualsSecondaryAlone ==
    googleRaised =>
        /\ collected = aloneCollected
        /\ seen = aloneSeen
        /\ (pc = "done" => result = aloneCollected)

\* C1 witness: Google failed on a later page fetch after it had collected
\* URLs, and the fallback returned a non-empty result.
C1_Witness ==
    /\ pc = "done"
    /\ googleRaised /\ discarded
    /\ gLast.start > 1 /\ ~gLast.answered
    /\ result # <<>>
    /\ result = aloneCollected

\* A credential argument that is absent or empty after trimming.
BlankArg(arg) == \A s \in arg : \A i \in 1..Len(s) : s[i] \in Whitespace

\* C2: when the API key or the engine id given to the constructor is absent
\* or empty after trimming, no Google page fetch is ever made and the Google
\* attempt is never entered, and the run goes to the Bing client.
C2_NoPrimaryWithoutCredentials ==
    (BlankArg(ctor_args.google_api_key) \/ BlankArg(ctor_args.google_cse_id)) =>
        /\ pc \notin GooglePcs
        /\ call # "google"
        /\ gLast = NoCall
        /\ (pc # "start" => bingEntered)

\* C2 witness: a key is given but the engine id is whitespace only, and the
\* run ended after fetching from Bing.
C2_Witness ==
    /\ ~BlankArg(ctor_args.google_api_key)
    /\ ctor_args.google_cse_id = {<<" ">>}
    /\ pc = "done"
    /\ bingEntered
    /\ gLast = NoCall
    /\ proxyCalls + directCalls > 0

\* C3: as long as no exception has left a Google attempt that was entered,
\* the Bing client is neither entered nor fetched from, and the run ends with
\* the collector of the Google attempt as its result, whatever its length.
C3_PrimarySuccessSkipsFallback ==
    (~BlankArg(ctor_args.google_api_key) /\ ~BlankArg(ctor_args.google_cse_id)
        /\ ~googleRaised) =>
        /\ pc \notin BingPcs
        /\ pc # "raised"
        /\ ~bingEntered
        /\ call \notin BingCalls
        /\ bLast = NoCall
        /\ proxyCalls = 0 /\ directCalls = 0
        /\ (pc = "done" => result = collected)

\* C3 witness: the Google attempt returned fewer URLs than max_images after
\* fetching pages, and no Bing fetch was made.
C3_Witness ==
    /\ pc = "done"
    /\ ~googleRaised /\ ~bingEntered
    /\ gLast # NoCall
    /\ result # <<>>
    /\ Len(result) < max_images
    /\ bLast = NoCall

\* C4: scrape_images never ends in an error: whatever the providers answer,
\* no exception leaves it.
C4_NeverEndsInError == pc # "raised"

NoDuplicates(s) == \A i, j \in 1..Len(s) : i # j => s[i] # s[j]

\* C5: at every point of the run the collector holds no image URL twice, it
\* holds exactly the URLs of the seen set, as many as the set has members,
\* and the returned sequence has no repeated URL.
C5_CollectorHasNoDuplicates ==
    /\ NoDuplicates(collected)
    /\ Len(collected) = Cardinality(seen)
    /\ seen = {collected[i] : i \in 1..Len(collected)}
    /\ (pc = "done" => NoDuplicates(result))

\* C5 witness: a raw result with a matching page brought again the URL that
\* was collected first, and the collector still holds two URLs.
C5_Witness ==
    /\ Len(collected) = 2
    /\ lastItem.shape \in {"dict", "object"}
    /\ lastItem.url = collected[1]
    /\ lastItem.page = PageAcme
    /\ brand_keywords # <<>>

\* C6: for a non-negative max_images the collector never holds more than
\* max_images URLs and scrape_images never returns more than max_images.
C6_CapRespected ==
    max_images >= 0 =>
        /\ Len(collected) <= max_images
        /\ (pc = "done" => Len(result) <= max_images)

\* C6 witness: the cap is reached while the provider's page still has raw
\* results that were not looked at.
C6_Witness ==
    /\ max_images > 0
    /\ Len(collected) = max_images
    /\ items_left > 0
    /\ pc \in {"google_items", "bing_anchors"}

\* C7: every collected URL came with a hosting page URL that, lower-cased,
\* contains some lower-cased token of the brand name; with no token nothing
\* is collected; and what is returned is what was collected.
C7_OnlyKeywordPagesAccepted ==
    /\ \A i \in 1..Len(collected) :
          /\ i \in DOMAIN origin
          /\ \E k \in KeywordTokens(brand_name) : Contains(Lower(origin[i]), k)
    /\ (KeywordTokens(brand_name) = {} => collected = <<>>)
    /\ (pc = "done" => result = collected)

\* C7 witness: a URL whose page matches only after lower-casing was returned.
C7_Witness ==
    /\ pc = "done"
    /\ result # <<>>
    /\ \E i \in 1..Len(origin) : origin[i] = PageAcmeUpper

QueryOrder == <<"newspaper ad", "magazine ad", "print ad", "social media ad">>

\* C8: a Bing fetch answered by an exception or a non-2xx status leaves the
\* collector as it was and hands the turn to the next phrase; and a phrase
\* whose turn comes with the collector below the cap is fetched.
C8_FailedPhraseOnlySkipped ==
    [][ /\ (call' \in BingCalls /\ ~bLast'.answered) =>
              /\ collected' = collected
              /\ seen' = seen
              /\ pc' = "bing_keywords"
              /\ query_idx' = query_idx + 1
        /\ (pc = "bing_keywords" /\ query_idx <= Len(QueryOrder)
                /\ Len(collected) < max_images) =>
              /\ call' \in BingCalls
              /\ bLast'.query = QueryOrder[query_idx]
      ]_vars

\* C8 witness: the third phrase's fetch failed and the URLs of earlier
\* phrases are still collected.
C8_Witness ==
    /\ pc = "bing_keywords"
    /\ call \in BingCalls
    /\ ~bLast.answered
    /\ bLast.query = "print ad"
    /\ collected # <<>>

\* C9: a Google fetch answered by an exception, a non-2xx status or an
\* unreadable body ends the Google attempt at once, and once the last Google
\* fetch has failed no Google fetch is made again: any later fetch is a Bing
\* fetch.
C9_PrimaryFailureAbortsAttempt ==
    [][ /\ (call' = "google" /\ ~gLast'.answered) =>
              (pc' = "bing_keywords" /\ googleRaised')
        /\ (gLast # NoCall /\ ~gLast.answered) =>
              (call' # "google" /\ pc' \notin GooglePcs)
      ]_vars

\* C9 witness: Google failed on the second page of its second query and the
\* next fetch went to Bing.
C9_Witness ==
    /\ gLast.query = "magazine ad"
    /\ gLast.start = 11
    /\ ~gLast.answered
    /\ call \in BingCalls

\* ceil(a / b) for b > 0.
CeilDiv(a, b) ==
    IF a <= 0 THEN 0 ELSE CHOOSE n \in 1..a : (n - 1) * b < a /\ a <= n * b

\* C10: every Google fetch has a start offset of at least 1 that is one of
\* 1, 11, 21, ... below 10 * ceil(max_images / 10); the first fetch is
\* newspaper ad at 1; and each later fetch is either the same query 10
\* further or the next query of the fixed order at 1.
C10_PrimaryFetchOrder ==
    [][ call' = "google" =>
          /\ gLast'.start >= 1
          /\ \E k \in 0..(CeilDiv(max_images, 10) - 1) :
                gLast'.start = 1 + 10 * k
          /\ IF gLast = NoCall
             THEN gLast'.query = QueryOrder[1] /\ gLast'.start = 1
             ELSE \/ gLast'.query = gLast.query
                     /\ gLast'.start = gLast.start + 10
                  \/ \E i \in 1..(Len(QueryOrder) - 1) :
                        /\ gLast.query = QueryOrder[i]
                        /\ gLast'.query = QueryOrder[i + 1]
                        /\ gLast'.start = 1
      ]_vars

\* C10 witness: the last query was fetched at offset 21.
C10_Witness ==
    /\ call = "google"
    /\ gLast.query = "social media ad"
    /\ gLast.start = 21

\* The query after q in the fixed order, "" after the last.
NextQuery(q) ==
    IF \E i \in 1..(Len(QueryOrder) - 1) : QueryOrder[i] = q
    THEN QueryOrder[1 + CHOOSE i \in 1..(Len(QueryOrder) - 1) : QueryOrder[i] = q]
    ELSE ""

\* C11: a Google page with status 200 and no items is no error (the attempt
\* goes on, the collector is kept); no later fetch is for the same query;
\* and while the collector is below the cap and a query is left, the attempt
\* makes no other move than to fetch the next query at offset 1.
C11_EmptyPageEndsQueryOnly ==
    [][ /\ (call' = "google" /\ gLast'.empty) =>
              /\ pc' \in GooglePcs
              /\ ~googleRaised'
              /\ collected' = collected
        /\ (gLast.empty /\ call' = "google") =>
              /\ gLast'.query = NextQuery(gLast.query)
              /\ gLast'.start = 1
        /\ (gLast.empty /\ NextQuery(gLast.query) # ""
                /\ Len(collected) < max_images) =>
              \/ call' = "google"
              \/ call' = "none" /\ pc' \in GooglePcs /\ collected' = collected
      ]_vars

\* C11 witness: the second page of the first query came back empty while
\* URLs were collected and the cap was not reached; the attempt goes on.
C11_Witness ==
    /\ call = "google"
    /\ gLast.query = "newspaper ad"
    /\ gLast.start = 11
    /\ gLast.empty
    /\ collected # <<>>
    /\ Len(collected) < max_images
    /\ pc = "google_queries"
    /\ ~googleRaised

\* C12: when a Bing phrase's turn comes it is fetched exactly if the
\* collector holds fewer than max_images URLs; the phrases are fetched in the
\* fixed order, none twice and none skipped; and neither client makes a fetch
\* in a step that starts with max_images URLs collected.
C12_FetchOnlyBelowCap ==
    [][ /\ (pc = "bing_keywords" /\ query_idx <= Len(QueryOrder)) =>
              (call' \in BingCalls <=> Len(collected) < max_images)
        /\ call' \in BingCalls =>
              /\ bLast'.query = QueryOrder[query_idx]
              /\ bLast'.query =
                    (IF bLast = NoCall THEN QueryOrder[1]
                                       ELSE NextQuery(bLast.query))
        /\ call' # "none" => Len(collected) < max_images
      ]_vars

\* C12 witness: the first phrase filled the collector up to the cap and the
\* run ended without a fetch for the second phrase.
C12_Witness ==
    /\ pc = "done"
    /\ bingEntered
    /\ bLast.query = "newspaper ad"
    /\ max_images > 0
    /\ Len(result) = max_images
    /\ proxyCalls + directCalls = 1

\* An anchor whose metadata is absent, not parseable, not an object, or an
\* object without murl or without purl.
UnusableAnchor(it) ==
    \/ it.shape \in {"absent", "not_json", "json_array"}
    \/ it.shape = "object" /\ (it.url = "" \/ it.page = <<>>)

\* C13: a Bing anchor whose metadata is absent, malformed or lacks murl or
\* purl is skipped alone: the collector and the seen set stay as they were
\* and the loop goes on with the rest of the same page.
C13_UnusableAnchorSkipped ==
    [][ (pc = "bing_anchors" /\ lastItem' # NoItem /\ UnusableAnchor(lastItem')) =>
              /\ collected' = collected
              /\ seen' = seen
              /\ pc' = "bing_anchors"
              /\ query_idx' = query_idx
              /\ items_left' = items_left - 1
      ]_vars

\* The first n members of s, all of s when it has fewer.
FirstN(s, n) == SubSeq(s, 1, IF n < Len(s) THEN n ELSE Len(s))

\* C14: at every point of a provider attempt the collector is the reference
\* collection of the raw results delivered to the attempt so far (those with
\* both links, a page link that matches a brand token and an image link not
\* kept before, in order of first acceptance), cut to its first max_images;
\* and the value returned is the collector.
C14_ResultIsReferenceCollection ==
    /\ pc \in GooglePcs \cup BingPcs \cup {"done"} =>
          collected = FirstN(refKept, max_images)
    /\ pc = "done" => result = FirstN(refKept, max_images)

\* C14 witness: brand "Acme Co", Google delivered http://x/1.png on the page
\* http://acme.co/page and then only empty pages, up to the last query; the
\* run returned exactly that URL.
C14_Witness ==
    /\ pc = "done"
    /\ brand_name = <<"A", "c", "m", "e", " ", "C", "o">>
    /\ ~bingEntered
    /\ gLast.query = "social media ad" /\ gLast.start = 1 /\ gLast.empty
    /\ refKept = <<Img1>>
    /\ origin = <<PageAcme>>
    /\ result = <<Img1>>

\* C15, as claimed: a Google response with a status is a failure exactly when
\* the status is outside 200..299; 429 gives the quota error, any other status
\* outside 200..299 the API error with the status and the body, and a status
\* in 200..299 gives no error and hands its items to the item loop.
C15_FailureExactlyOutside2xx ==
    gResp.kind = "http" =>
      /\ (gError # NoError) <=> (gResp.status \notin 200..299)
      /\ gResp.status = HTTP_QUOTA => gError.error = "quota exceeded"
      /\ (gResp.status \notin 200..299 /\ gResp.status # HTTP_QUOTA) =>
            gError = [error |-> "Google API error", status |-> gResp.status,
                      text |-> gResp.text]
      /\ gResp.status \in 200..299 =>
            /\ ~googleRaised
            /\ items_left = gResp.count

\* C15, amended: a Google response is a failure exactly when its status is not
\* 200 or the body of a 200 does not parse to a JSON object; 429 gives the
\* quota error, any other status than 200 (201 included) the API error with
\* the status and the body, and a 200 with a JSON object gives no error and
\* hands its items to the item loop (none: the query is over).
C15_FailureExactlyNon200 ==
    gResp.kind \in {"http", "bad_json"} =>
      /\ (gError # NoError) <=>
            (gResp.status # HTTP_OK \/ gResp.kind = "bad_json")
      /\ gResp.status = HTTP_QUOTA =>
            gError = [error |-> "quota exceeded", status |-> HTTP_QUOTA,
                      text |-> ""]
      /\ (gResp.status # HTTP_OK /\ gResp.status # HTTP_QUOTA) =>
            gError = [error |-> "Google API error", status |-> gResp.status,
                      text |-> gResp.text]
      /\ gError # NoError => googleRaised /\ pc = "bing_keywords"
      /\ gError = NoError =>
            /\ items_left = gResp.count
            /\ pc = IF gResp.count = 0 THEN "google_queries" ELSE "google_items"

\* C15 witness: a 201 on the second page of a query, after a first page that
\* was collected from, raised the API error carrying 201 and its body.
C15_Witness ==
    /\ gResp.status = 201
    /\ gError = [error |-> "Google API error", status |-> 201, text |-> "{}"]
    /\ gLast.start = 11
    /\ discarded
    /\ pc = "bing_keywords"

\* C16: the ScrapingBee key given to the constructor alone fixes the
\* transport of every Bing fetch of the run: with a key that is not empty
\* after trimming every Bing fetch goes through ScrapingBee and none is
\* direct, the fetch that follows a failed ScrapingBee fetch included; with
\* no key, or one that trims to nothing, every Bing fetch is direct and
\* ScrapingBee is never called.
C16_TransportFixedByCredential ==
    [][ LET proxy == ~BlankArg(ctor_args.scrapingbee_api_key)
        IN  /\ call' \in BingCalls =>
                  call' = IF proxy THEN "scrapingbee" ELSE "direct"
            /\ proxy => directCalls' = 0
            /\ ~proxy => proxyCalls' = 0
            /\ (call = "scrapingbee" /\ ~bLast.answered /\ call' \in BingCalls) =>
                  /\ call' = "scrapingbee"
                  /\ proxyCalls' = proxyCalls + 1
      ]_vars

\* C16 witness: the second ScrapingBee fetch of a run has just failed, as the
\* first did or after an empty first page, no direct fetch was made, and the
\* third phrase is due.
C16_Witness ==
    /\ call = "scrapingbee"
    /\ ~bLast.answered
    /\ bLast.query = "magazine ad"
    /\ proxyCalls = 2
    /\ directCalls = 0
    /\ pc = "bing_keywords"
    /\ query_idx = 3
    /\ Len(collected) < max_images

\* A raw result the design skips whatever was kept before: it lacks the image
\* link or the page link, or its page link holds no token of the brand name.
RefRejects(it, name) ==
    /\ it.shape \in {"dict", "object"}
    /\ \/ it.url = ""
       \/ it.page = <<>>
       \/ ~\E k \in KeywordTokens(name) : Contains(Lower(it.page), k)

\* C17: a raw result skipped for a missing image link, a missing page link or
\* a page link without a brand token leaves the collector and the seen set as
\* they were; so whatever was skipped before it in the attempt, a result with
\* both links, a matching page link and an image link that is not in the
\* collector is collected.
C17_SkipLeavesNoTrace ==
    [][ /\ (lastItem' # NoItem /\ RefRejects(lastItem', brand_name)) =>
              /\ collected' = collected
              /\ seen' = seen
        /\ (/\ lastItem'.shape \in {"dict", "object"}
            /\ ~RefRejects(lastItem', brand_name)
            /\ \A i \in 1..Len(collected) : collected[i] # lastItem'.url) =>
              /\ collected' = Append(collected, lastItem'.url)
              /\ seen' = seen \cup {lastItem'.url}
      ]_vars

\* C17 witness: http://x/1.png has just been skipped on a page that does not
\* match, after another URL was collected; it is not in the seen set and the
\* page has a result left.
C17_Witness ==
    /\ lastItem = [shape |-> "dict", url |-> Img1, page |-> PageOther]
    /\ collected = <<Img2>>
    /\ seen = {Img2}
    /\ items_left > 0
    /\ Len(collected) < max_images

\* How far a run has come: the provider attempt (0 before both, 1 Google,
\* 2 Bing, 3 over), the query or phrase, the place in its page loop, and the
\* results of the page already looked at.
Progress ==
    CASE pc = "start" -> <<0, 0, 0, 0>>
      [] pc = "google_queries" -> <<1, query_idx, 0, 0>>
      [] pc = "google_pages" -> <<1, query_idx, 2 * page_idx + 1, 0>>
      [] pc = "google_items" ->
            <<1, query_idx, 2 * page_idx + 2, MaxPageLen - items_left>>
      [] pc = "bing_keywords" -> <<2, query_idx, 0, 0>>
      [] pc = "bing_anchors" -> <<2, query_idx, 1, MaxPageLen - items_left>>
      [] OTHER -> <<3, 0, 0, 0>>

\* Lexicographic order on 4-tuples of numbers.
LexLess(a, b) ==
    \E i \in 1..4 : a[i] < b[i] /\ \A j \in 1..(i - 1) : a[j] = b[j]

\* C18: every run of scrape_images comes to an end after a bounded number of
\* provider calls: each step of the run moves it strictly forward in a finite
\* order (attempt, query, page, result), the Google attempt is entered at
\* most once and only from the start, the Bing attempt at most once and never
\* left for Google, the Google attempt has made at most
\* 4 * ceil(max_images / 10) page fetches and the Bing attempt at most 4
\* fetches, the i-th of them for the i-th phrase.
C18_BoundedProviderCalls ==
    [][ /\ LexLess(Progress, Progress')
        /\ Progress'[2] \in 0..(Len(QueryOrder) + 1)
        /\ Progress'[3] \in 0..(2 * CeilDiv(max_images, per_page) + 1)
        /\ Progress'[4] \in 0..MaxPageLen
        /\ (pc' \in GooglePcs /\ pc \notin GooglePcs) => pc = "start"
        /\ (pc' \in BingPcs /\ pc \notin BingPcs) => ~bingEntered
        /\ pc \in BingPcs => pc' \notin GooglePcs
        /\ gCalls' <= 4 * CeilDiv(max_images, per_page)
        /\ proxyCalls' + directCalls' <= Len(QueryOrder)
        /\ call' \in BingCalls =>
              bLast'.query = QueryOrder[proxyCalls' + directCalls']
      ]_vars

\* C18 witness: with max_images = 11 the Google attempt made all 8 page
\* fetches it can make, failed on the last, and the Bing attempt then made
\* its 4 fetches; the run is over.
C18_Witness ==
    /\ pc = "done"
    /\ max_images = per_page + 1
    /\ googleRaised
    /\ gLast.query = "social media ad" /\ gLast.start = per_page + 1
    /\ proxyCalls + directCalls = Len(QueryOrder)

\* The Google attempt at its bound: 8 page fetches for max_images = 11.
C18_GoogleAtBound ==
    /\ max_images = per_page + 1
    /\ gCalls = 4 * CeilDiv(max_images, per_page)
====
